---- MODULE Spec2Model ----
(***************************************************************************)
(* Model of the Nexus backend (database_code/): the people / logins /      *)
(* relationships tables of setupFiles/createDatabase.py and the            *)
(* DatabaseManager operations of database_operations.py that act on them.  *)
(*                                                                         *)
(* SQL values: a nullable column holds SqlNull (<<>>) or SqlText(v)        *)
(* (<<v>>).  A Python str that the code splits or joins is a sequence of   *)
(* symbols; the symbol "," is the delimiter, every other symbol stands for *)
(* a comma-free, non-empty piece of text.                                  *)
(***************************************************************************)
EXTENDS Integers, Sequences, FiniteSets, TLC

VARIABLES
    people,           \* table people: id -> row
    logins,           \* table logins: set of rows
    relationships,    \* table relationships: set of rows
    people_id_seq,    \* the SERIAL sequence of people.id: last value issued
    now,              \* the clock NOW() reads
    last,             \* the call that was made last and what it returned
    w                 \* the workers of the statement-level specification

vars == <<people, logins, relationships, people_id_seq, now, last, w>>

(***************************************************************************)
(* Bounds of the model.                                                    *)
(***************************************************************************)
MaxPeople == 3        \* ids the SERIAL sequence issues
MaxEdges == 2         \* rows of relationships
MaxNewTags == 2       \* length of the new_tags argument
MaxCalls == 2         \* calls of update_user_recent_tags in SpecTags
MaxIngests == 1       \* calls of create_contact in SpecIngest
MaxTime == 2          \* readings of the store's clock in SpecEdges

Ids == 1..MaxPeople

(***************************************************************************)
(* SQL values and Python strings.                                          *)
(***************************************************************************)
SqlNull == <<>>
SqlText(v) == <<v>>

Comma == ","

Range(s) == {s[i] : i \in 1..Len(s)}

Take(s, n) == SubSeq(s, 1, IF n < Len(s) THEN n ELSE Len(s))

\* the index of the first delimiter of s, or 0
RECURSIVE FirstComma(_, _)
FirstComma(s, i) ==
    IF i > Len(s) THEN 0
    ELSE IF s[i] = Comma THEN i
    ELSE FirstComma(s, i + 1)

\* str.split(','): "a,,b" -> ['a', '', 'b'], "" -> ['']
RECURSIVE Split(_)
Split(s) ==
    LET k == FirstComma(s, 1)
    IN  IF k = 0 THEN <<s>>
        ELSE <<SubSeq(s, 1, k - 1)>> \o Split(SubSeq(s, k + 1, Len(s)))

\* ','.join(list)
RECURSIVE Join(_)
Join(list) ==
    IF list = <<>> THEN <<>>
    ELSE IF Len(list) = 1 THEN list[1]
    ELSE list[1] \o <<Comma>> \o Join(Tail(list))

\* config.DEFAULT_TAGS = "family,friend,work,school,neighbor,event"
DEFAULT_TAGS ==
    <<"family", Comma, "friend", Comma, "work", Comma, "school", Comma,
      "neighbor", Comma, "event">>

\* config.MAX_RECENT_TAGS
MAX_RECENT_TAGS == 10

(***************************************************************************)
(* The database as a value, so that a handler is a composition of its      *)
(* statements.                                                             *)
(***************************************************************************)
DB == [people |-> people, logins |-> logins, relationships |-> relationships]

\* get_user_by_id(id) is not None
PersonExists(db, id) == id \in DOMAIN db.people

\* the pair of a relationships row
EdgeAt(db, u, c) == {r \in db.relationships : r.user_id = u /\ r.contact_id = c}

\* DELETE FROM people WHERE id = %s, with ON DELETE CASCADE of logins.people_id,
\* relationships.user_id and relationships.contact_id
DeletePeopleNoCascade(db, id) ==
    [db EXCEPT !.people = [p \in DOMAIN db.people \ {id} |-> db.people[p]]]

DeletePeople(db, id) ==
    [people |-> [p \in DOMAIN db.people \ {id} |-> db.people[p]],
     logins |-> {l \in db.logins : l.people_id # id},
     relationships |->
        {r \in db.relationships : r.user_id # id /\ r.contact_id # id}]

\* user_has_login: SELECT COUNT(*) FROM logins WHERE people_id = %s; > 0
UserHasLoginNever(db, id) == FALSE

UserHasLoginAlways(db, id) ==
    Cardinality({l \in db.logins : l.people_id = id}) >= 0

UserHasLogin(db, id) == Cardinality({l \in db.logins : l.people_id = id}) > 0

\* SELECT COUNT(*) AS connection_count FROM relationships WHERE contact_id = %s
ConnectionCountNonzero(db, id) ==
    Cardinality({r \in db.relationships : r.contact_id = id}) + 1

ConnectionCount(db, id) ==
    Cardinality({r \in db.relationships : r.contact_id = id})

\* DELETE FROM relationships WHERE user_id = %s AND contact_id = %s
DeleteRelationshipAnyContact(db, u, c) ==
    [db EXCEPT !.relationships = {r \in @ : r.user_id # u}]

DeleteRelationship(db, u, c) ==
    [db EXCEPT !.relationships = @ \ EdgeAt(db, u, c)]

\* whether INSERT INTO relationships is accepted: both foreign keys resolve
\* and UNIQUE (user_id, contact_id) is kept; the table has no other constraint
\* on the pair
InsertRelationshipNoUnique(db, u, c) ==
    PersonExists(db, u) /\ PersonExists(db, c)

InsertRelationshipNoForeignKey(db, u, c) == EdgeAt(db, u, c) = {}

InsertRelationshipOk(db, u, c) ==
    /\ PersonExists(db, u)
    /\ PersonExists(db, c)
    /\ EdgeAt(db, u, c) = {}

\* whether INSERT INTO logins is accepted: the foreign key resolves and
\* username is UNIQUE; people_id carries no UNIQUE constraint
InsertLoginOk(db, id, username) ==
    /\ PersonExists(db, id)
    /\ \A l \in db.logins : l.username # username

(***************************************************************************)
(* DatabaseManager operations.  Each returns the database it leaves and    *)
(* what it returns; fail names the statement at which the store raises     *)
(* ("none": no statement raises).                                          *)
(***************************************************************************)

\* add_user_login
add_user_login(db, id, username, passkey, fail) ==
    IF fail = "insert" \/ ~InsertLoginOk(db, id, username)
    THEN [db |-> db, result |-> FALSE]
    ELSE [db |-> [db EXCEPT !.logins = @ \cup
                    {[people_id |-> id, username |-> username,
                      passkey |-> passkey, last_login |-> SqlText(now)]}],
          result |-> TRUE]

\* dict.get(key) / dict.pop(key, None): None when the key is absent
Get(d, k) == IF k \in DOMAIN d THEN d[k] ELSE SqlNull

\* the columns of people that the INSERT of add_user names, but recent_tags
InsertColumns ==
    {"first_name", "last_name", "email", "phone_number", "location",
     "university", "interests", "high_school", "gender", "ethnicity",
     "uni_major", "job_title", "current_company", "profile_image_url",
     "linkedin_url"}

\* the columns of people (id is the key of the row, created_at is left out)
PeopleColumns == InsertColumns \cup {"birthday", "recent_tags"}

\* the row the INSERT of add_user stores: the named columns from user_data
\* (None when the key is absent), recent_tags defaulting to DEFAULT_TAGS; a
\* column the INSERT does not name (birthday) stays NULL
PeopleRow(user_data) ==
    [c \in PeopleColumns |->
        IF c = "recent_tags"
        THEN IF Get(user_data, c) = SqlNull THEN SqlText(DEFAULT_TAGS)
             ELSE user_data[c]
        ELSE IF c \in InsertColumns THEN Get(user_data, c)
        ELSE SqlNull]

\* add_user: the row's id comes from the sequence; first_name and last_name
\* are NOT NULL; username and password are popped and, when both are given,
\* passed to add_user_login, whose result is not looked at.  fail = "insert"
\* stands for any other rejection of the INSERT by the store.
AddUserRaises(user_data, fail) ==
    \/ fail = "insert"
    \/ Get(user_data, "first_name") = SqlNull
    \/ Get(user_data, "last_name") = SqlNull

add_user(db, id, user_data, fail) ==
    IF AddUserRaises(user_data, fail)
    THEN [db |-> db, result |-> "raise"]
    ELSE LET d1 == [db EXCEPT !.people =
                        [p \in DOMAIN db.people \cup {id} |->
                            IF p = id THEN PeopleRow(user_data)
                            ELSE db.people[p]]]
         IN  IF Get(user_data, "username") # SqlNull
                /\ Get(user_data, "password") # SqlNull
             THEN [db |-> add_user_login(d1, id, user_data.username[1],
                                         user_data.password[1], "none").db,
                   result |-> id]
             ELSE [db |-> d1, result |-> id]

\* add_connection
AddConnectionHidesFailure(db, u, c, data, fail) ==
    IF fail = "insert" \/ ~InsertRelationshipOk(db, u, c)
    THEN [db |-> db, result |-> TRUE]
    ELSE [db |-> [db EXCEPT !.relationships = @ \cup
                    {[user_id |-> u, contact_id |-> c,
                      relationship_description |-> data[1],
                      notes |-> data[2], tags |-> data[3],
                      what_they_are_working_on |-> data[4],
                      last_viewed |-> SqlText(now)]}],
          result |-> TRUE]

add_connection(db, u, c, data, fail) ==
    IF fail = "insert" \/ ~InsertRelationshipOk(db, u, c)
    THEN [db |-> db, result |-> FALSE]
    ELSE [db |-> [db EXCEPT !.relationships = @ \cup
                    {[user_id |-> u, contact_id |-> c,
                      relationship_description |-> data[1],
                      notes |-> data[2], tags |-> data[3],
                      what_they_are_working_on |-> data[4],
                      last_viewed |-> SqlText(now)]}],
          result |-> TRUE]

\* the rows of the three tables
RowsOf(db) ==
    Cardinality(DOMAIN db.people) + Cardinality(db.logins)
        + Cardinality(db.relationships)

\* remove_connection: the DELETE of the row is committed first; then the
\* login check, the count of the remaining rows that name the contact and the
\* DELETE of the contact.  user_has_login swallows a failure of its query and
\* answers False, and the next statement then raises in the failed
\* transaction.  rowcount is the cursor's count of the first DELETE, gc the
\* number of rows the DELETE of the contact removed (the row of people and
\* the rows the cascade took with it).
remove_connection(db, u, c, fail) ==
    LET d1 == DeleteRelationship(db, u, c)
        n == Cardinality(EdgeAt(db, u, c))
    IN  IF fail = "delete"
        THEN [db |-> db, result |-> FALSE, rowcount |-> 0, gc |-> 0]
        ELSE IF fail = "login"
        THEN [db |-> d1, result |-> FALSE, rowcount |-> n, gc |-> 0]
        ELSE IF UserHasLogin(d1, c)
        THEN [db |-> d1, result |-> TRUE, rowcount |-> n, gc |-> 0]
        ELSE IF fail = "count"
        THEN [db |-> d1, result |-> FALSE, rowcount |-> n, gc |-> 0]
        ELSE IF ConnectionCount(d1, c) # 0
        THEN [db |-> d1, result |-> TRUE, rowcount |-> n, gc |-> 0]
        ELSE IF fail = "gc"
        THEN [db |-> d1, result |-> FALSE, rowcount |-> n, gc |-> 0]
        ELSE [db |-> DeletePeople(d1, c), result |-> TRUE, rowcount |-> n,
              gc |-> RowsOf(d1) - RowsOf(DeletePeople(d1, c))]

\* clean_test_data: the rows of every id above the threshold are deleted from
\* relationships, logins and people
clean_test_data(db, threshold, fail) ==
    IF fail = "delete"
    THEN [db |-> db, result |-> FALSE]
    ELSE [db |->
            [people |-> [p \in {q \in DOMAIN db.people : q <= threshold} |->
                            db.people[p]],
             logins |-> {l \in db.logins : l.people_id <= threshold},
             relationships |->
                {r \in db.relationships :
                    ~(r.user_id > threshold \/ r.contact_id > threshold)}],
          result |-> TRUE]

\* get_user_recent_tags: the column split at the delimiter; no row, NULL and
\* the empty string give []
get_user_recent_tags(db, id) ==
    IF PersonExists(db, id)
       /\ db.people[id].recent_tags # SqlNull
       /\ db.people[id].recent_tags[1] # <<>>
    THEN Split(db.people[id].recent_tags[1])
    ELSE <<>>

\* for tag in tags: if tag and tag not in updated_tags: updated_tags.append(tag)
RECURSIVE AppendNew(_, _)
AppendNew(updated_tags, tags) ==
    IF tags = <<>> THEN updated_tags
    ELSE AppendNew(
            IF Head(tags) # <<>> /\ Head(tags) \notin Range(updated_tags)
            THEN Append(updated_tags, Head(tags))
            ELSE updated_tags,
            Tail(tags))

\* the list update_user_recent_tags builds from the list it read
UpdatedTags(current_tags, new_tags, max_tags) ==
    Take(AppendNew(AppendNew(<<>>, new_tags), current_tags), max_tags)

\* tags_string = ','.join(updated_tags) if updated_tags else None
TagsString(updated_tags) ==
    IF updated_tags = <<>> THEN SqlNull ELSE SqlText(Join(updated_tags))

\* UPDATE people SET recent_tags = %s WHERE id = %s; rowcount > 0
SetRecentTags(db, id, tags_string) ==
    IF PersonExists(db, id)
    THEN [db |-> [db EXCEPT !.people[id].recent_tags = tags_string],
          result |-> TRUE]
    ELSE [db |-> db, result |-> FALSE]

\* update_user_recent_tags
update_user_recent_tags(db, id, new_tags, max_tags, fail) ==
    IF fail = "update"
    THEN [db |-> db, result |-> FALSE]
    ELSE SetRecentTags(db, id,
            TagsString(UpdatedTags(get_user_recent_tags(db, id), new_tags,
                                   max_tags)))

(***************************************************************************)
(* The calls the sequential specification makes.                           *)
(***************************************************************************)
Usernames == {"daniel"}
Passkeys == {"password"}

\* (relationship_description, notes, tags, what_they_are_working_on)
EdgeData ==
    {<<SqlText("Friend"), SqlNull, SqlNull, SqlNull>>,
     <<SqlText("Contact"), SqlText("met at a hackathon"), SqlText("work,tech"),
       SqlText("a startup")>>}

UserData ==
    {[first_name |-> SqlText("Ann"), last_name |-> SqlText("Lee")]}
    \cup
    {[first_name |-> SqlText("Ann"), last_name |-> SqlText("Lee"),
      username |-> SqlText(u), password |-> SqlText(p)] :
        u \in Usernames, p \in Passkeys}

NoWorkers == <<>>

Init ==
    /\ people = <<>>
    /\ logins = {}
    /\ relationships = {}
    /\ people_id_seq = 0
    /\ now = 0
    /\ last = [op |-> "none"]
    /\ w = NoWorkers

Commit(db) ==
    /\ people' = db.people
    /\ logins' = db.logins
    /\ relationships' = db.relationships

AddUser(user_data, fail) ==
    /\ people_id_seq < MaxPeople
    /\ LET id == people_id_seq + 1
           r == add_user(DB, id, user_data, fail)
       IN  /\ Commit(r.db)
           /\ people_id_seq' = IF fail = "insert" THEN people_id_seq ELSE id
           /\ last' = [op |-> "add_user", username |-> Get(user_data, "username"),
                       data |-> user_data, result |-> r.result]
    /\ UNCHANGED <<now, w>>

AddUserLogin(id, username, passkey, fail) ==
    /\ LET r == add_user_login(DB, id, username, passkey, fail)
       IN  /\ Commit(r.db)
           /\ last' = [op |-> "add_user_login", user_id |-> id,
                       username |-> username, result |-> r.result]
    /\ UNCHANGED <<people_id_seq, now, w>>

AddConnection(u, c, data, fail) ==
    /\ Cardinality(relationships) < MaxEdges
    /\ LET r == add_connection(DB, u, c, data, fail)
       IN  /\ Commit(r.db)
           /\ last' = [op |-> "add_connection", user_id |-> u,
                       contact_id |-> c, data |-> data, fail |-> fail,
                       result |-> r.result]
    /\ UNCHANGED <<people_id_seq, now, w>>

RemoveConnection(u, c, fail) ==
    /\ LET r == remove_connection(DB, u, c, fail)
       IN  /\ Commit(r.db)
           /\ last' = [op |-> "remove_connection", user_id |-> u,
                       contact_id |-> c, result |-> r.result,
                       rowcount |-> r.rowcount, gc |-> r.gc]
    /\ UNCHANGED <<people_id_seq, now, w>>

CleanTestData(threshold, fail) ==
    /\ LET r == clean_test_data(DB, threshold, fail)
       IN  /\ Commit(r.db)
           /\ last' = [op |-> "clean_test_data", threshold |-> threshold,
                       result |-> r.result]
    /\ UNCHANGED <<people_id_seq, now, w>>

Next ==
    \/ \E d \in UserData, f \in {"none", "insert"} : AddUser(d, f)
    \/ \E i \in Ids, u \in Usernames, p \in Passkeys, f \in {"none", "insert"} :
          AddUserLogin(i, u, p, f)
    \/ \E u \in Ids, c \in Ids, d \in EdgeData, f \in {"none", "insert"} :
          AddConnection(u, c, d, f)
    \/ \E u \in Ids, c \in Ids,
          f \in {"none", "delete", "login", "count", "gc"} :
          RemoveConnection(u, c, f)
    \/ \E t \in 0..MaxPeople, f \in {"none", "delete"} : CleanTestData(t, f)

Spec == Init /\ [][Next]_vars

(***************************************************************************)
(* Properties of the relationship graph (Spec).  In an action formula the  *)
(* unprimed tables are the database before the call that last' describes   *)
(* and the primed tables the database it leaves.                           *)
(***************************************************************************)
IsRemove(l, a, b) ==
    l.op = "remove_connection" /\ l.user_id = a /\ l.contact_id = b

IsAdd(l, a, b) ==
    l.op = "add_connection" /\ l.user_id = a /\ l.contact_id = b

\* C1: a remove_connection(a, b) that returns True on an existing row a->b
\* leaves no row a->b; if b had no login and no owner other than a had a row
\* to b, then b is no longer in people and no row of relationships has b as
\* owner or as contact.
C1_RemoveEdgeCollectsOrphan ==
    [][\A a \in Ids, b \in Ids :
        ( /\ IsRemove(last', a, b)
          /\ last'.result = TRUE
          /\ \E r \in relationships : r.user_id = a /\ r.contact_id = b )
        =>
        /\ \A r \in relationships' : ~(r.user_id = a /\ r.contact_id = b)
        /\ ( /\ \A l \in logins : l.people_id # b
             /\ \A r \in relationships : r.contact_id = b => r.user_id = a )
           =>
           /\ b \notin DOMAIN people'
           /\ \A r \in relationships' : r.user_id # b /\ r.contact_id # b
      ]_vars

\* C1 witness: a call returned True, its DELETE removed the row and the
\* contact was deleted together with rows that referenced it.
C1_Witness ==
    /\ last.op = "remove_connection"
    /\ last.user_id # last.contact_id
    /\ last.result = TRUE
    /\ last.rowcount = 1
    /\ last.gc > 0
    /\ last.contact_id \notin DOMAIN people

\* C2: remove_connection(a, b), whatever it returns, deletes no person and no
\* login when b has a login or an owner c # a has a row c->b, and every row
\* of relationships other than a->b is still there, unchanged.
C2_RemoveEdgeKeepsReferenced ==
    [][\A a \in Ids, b \in Ids :
        ( /\ IsRemove(last', a, b)
          /\ \/ \E l \in logins : l.people_id = b
             \/ \E r \in relationships : r.contact_id = b /\ r.user_id # a )
        =>
        /\ b \in DOMAIN people'
        /\ people' = people
        /\ logins' = logins
        /\ \A r \in relationships :
              ~(r.user_id = a /\ r.contact_id = b) => r \in relationships'
      ]_vars

\* C2 witness: the row a->b was removed from a contact without a login that
\* another owner still references, and the contact is still there.
C2_Witness ==
    /\ last.op = "remove_connection"
    /\ last.user_id # last.contact_id
    /\ last.result = TRUE
    /\ last.rowcount = 1
    /\ last.contact_id \in DOMAIN people
    /\ \A l \in logins : l.people_id # last.contact_id
    /\ \E r \in relationships :
          r.contact_id = last.contact_id /\ r.user_id # last.user_id

RefIntegrity(P, L, R) ==
    /\ \A r \in R : r.user_id \in DOMAIN P /\ r.contact_id \in DOMAIN P
    /\ \A l \in L : l.people_id \in DOMAIN P

\* C3: owner and contact of every row of relationships and the person of
\* every row of logins exist in people; add_connection with an owner or a
\* contact that does not exist returns False and inserts nothing; when a
\* person leaves people, no login and no relationship row names it any more.
C3_ReferentialIntegrity ==
    [][ /\ RefIntegrity(people', logins', relationships')
        /\ \A u \in Ids, c \in Ids :
              ( /\ IsAdd(last', u, c)
                /\ (u \notin DOMAIN people \/ c \notin DOMAIN people) )
              => (last'.result = FALSE /\ relationships' = relationships)
        /\ \A p \in DOMAIN people \ DOMAIN people' :
              /\ \A l \in logins' : l.people_id # p
              /\ \A r \in relationships' : r.user_id # p /\ r.contact_id # p
      ]_vars

\* C3 witness: the orphan cleanup deleted a contact and the cascade took
\* further rows with it.
C3_Witness ==
    /\ last.op = "remove_connection"
    /\ last.user_id # last.contact_id
    /\ last.gc > 1
    /\ last.contact_id \notin DOMAIN people
    /\ relationships # {}

UniquePair(R) ==
    \A r1 \in R, r2 \in R :
        (r1.user_id = r2.user_id /\ r1.contact_id = r2.contact_id) => r1 = r2

\* C4: relationships never holds two rows with the same (user_id,
\* contact_id); add_connection on a pair that has a row returns False and
\* leaves every row, the existing one included, as it was.
C4_OneEdgePerPair ==
    [][ /\ UniquePair(relationships')
        /\ \A u \in Ids, c \in Ids :
              ( /\ IsAdd(last', u, c)
                /\ \E r \in relationships : r.user_id = u /\ r.contact_id = c )
              => (last'.result = FALSE /\ relationships' = relationships)
      ]_vars

\* C4 witness: the store accepted every statement, and add_connection with
\* other data than the existing row of the pair returned False.
C4_Witness ==
    /\ last.op = "add_connection"
    /\ last.user_id # last.contact_id
    /\ last.fail = "none"
    /\ last.result = FALSE
    /\ \E r \in relationships :
          /\ r.user_id = last.user_id
          /\ r.contact_id = last.contact_id
          /\ r.relationship_description # last.data[1]

\* C5: no row of relationships has user_id = contact_id.
C5_NoSelfEdge == \A r \in relationships : r.user_id # r.contact_id

(***************************************************************************)
(* The recent-tags list (SpecTags): one person created by add_user with    *)
(* the default tags, and calls of update_user_recent_tags.                 *)
(***************************************************************************)
TagPool ==
    {<<>>, <<"a">>, <<"b">>, <<"d">>, <<"a", Comma, "b">>, <<"work">>}

RECURSIVE SeqsUpTo(_, _)
SeqsUpTo(S, n) ==
    IF n = 0 THEN {<<>>}
    ELSE LET shorter == SeqsUpTo(S, n - 1)
         IN  shorter \cup {Append(q, x) : q \in shorter, x \in S}

NewTagLists == SeqsUpTo(TagPool, MaxNewTags)

\* max_tags: the default of the parameter, and a caller's own limit
ShortList == 3
MaxTagsArgs == {ShortList, MAX_RECENT_TAGS}

InitTags ==
    /\ people = (1 :> [recent_tags |-> SqlText(DEFAULT_TAGS)])
    /\ logins = {}
    /\ relationships = {}
    /\ people_id_seq = 1
    /\ now = 0
    /\ last = [op |-> "add_user", n |-> 0]
    /\ w = NoWorkers

UpdateUserRecentTags(id, new_tags, max_tags, fail) ==
    /\ last.n < MaxCalls
    /\ LET r == update_user_recent_tags(DB, id, new_tags, max_tags, fail)
       IN  /\ Commit(r.db)
           /\ last' = [op |-> "update_user_recent_tags", user_id |-> id,
                       new_tags |-> new_tags, max_tags |-> max_tags,
                       result |-> r.result, n |-> last.n + 1]
    /\ UNCHANGED <<people_id_seq, now, w>>

NextTags ==
    \E id \in 1..2, t \in NewTagLists, m \in MaxTagsArgs,
       f \in {"none", "update"} :
        UpdateUserRecentTags(id, t, m, f)

SpecTags == InitTags /\ [][NextTags]_vars

NoDuplicates(list) ==
    \A i \in 1..Len(list), j \in 1..Len(list) : i # j => list[i] # list[j]

\* C6: for every person, get_user_recent_tags returns at most MAX_RECENT_TAGS
\* entries and no entry twice.
C6_BoundedUnique ==
    \A id \in DOMAIN people :
        /\ Len(get_user_recent_tags(DB, id)) <= MAX_RECENT_TAGS
        /\ NoDuplicates(get_user_recent_tags(DB, id))

\* the list the claim describes: new_tags without repetitions, then the
\* previous entries that are not among new_tags, cut to max_tags
RECURSIVE FirstOccurrences(_, _)
FirstOccurrences(seen, tags) ==
    IF tags = <<>> THEN seen
    ELSE FirstOccurrences(
            IF Head(tags) \in Range(seen) THEN seen ELSE Append(seen, Head(tags)),
            Tail(tags))

ClaimedList(previous, new_tags, max_tags) ==
    Take(FirstOccurrences(FirstOccurrences(<<>>, new_tags), previous), max_tags)

\* C7: after update_user_recent_tags(p, new_tags) has returned True for
\* non-empty tags, get_user_recent_tags(p) is new_tags without repetitions,
\* followed by the entries of the previous list that are not among new_tags,
\* cut to max_tags entries.
C7_UpdateThenGet ==
    [][\A id \in DOMAIN people :
        ( /\ last'.op = "update_user_recent_tags"
          /\ last'.user_id = id
          /\ last'.result = TRUE
          /\ \A i \in 1..Len(last'.new_tags) : last'.new_tags[i] # <<>> )
        =>
        get_user_recent_tags(DB', id) =
            ClaimedList(get_user_recent_tags(DB, id), last'.new_tags,
                        last'.max_tags)
      ]_vars

\* C10: a remove_connection(a, b), a # b, that returns False leaves relationships, people
\* and logins as they were before the call.
C10_FailedRemoveChangesNothing ==
    [][\A a \in Ids, b \in Ids :
        (a # b /\ IsRemove(last', a, b) /\ last'.result = FALSE)
        =>
        /\ relationships' = relationships
        /\ people' = people
        /\ logins' = logins
      ]_vars

(***************************************************************************)
(* Statement-level specification (SpecConc): two workers, each with its    *)
(* own DatabaseManager and connection, make one call each.  A step is one  *)
(* statement together with the commit that follows it; under READ          *)
(* COMMITTED every statement reads what has been committed.  The store     *)
(* accepts every statement.                                                *)
(***************************************************************************)
Workers == {1, 2}

Idle ==
    [pc |-> "idle", op |-> "none", user_id |-> 0, contact_id |-> 0,
     new_tags |-> <<>>, has_login |-> FALSE, count |-> 0,
     current_tags |-> <<>>, result |-> FALSE, gc |-> 0]

ConcTagPool == {<<"a">>, <<"d">>, <<"a", Comma, "b">>}

ConcTagLists == SeqsUpTo(ConcTagPool, MaxNewTags) \ {<<>>}

Row(u, c) ==
    [user_id |-> u, contact_id |-> c,
     relationship_description |-> SqlText("Friend"), notes |-> SqlNull,
     tags |-> SqlNull, what_they_are_working_on |-> SqlNull,
     last_viewed |-> SqlText(0)]

LoginRow(id) ==
    [people_id |-> id, username |-> "daniel", passkey |-> "password",
     last_login |-> SqlText(0)]

\* the databases the workers start from: every person exists, at most one
\* has a login, at most MaxEdges rows between different persons
InitConc ==
    /\ people = [p \in Ids |-> [recent_tags |-> SqlText(DEFAULT_TAGS)]]
    /\ logins \in {{}} \cup {{LoginRow(id)} : id \in Ids}
    /\ relationships \in
          {R \in SUBSET {Row(u, c) : u \in Ids, c \in Ids} :
              Cardinality(R) <= MaxEdges /\ \A r \in R : r.user_id # r.contact_id}
    /\ people_id_seq = MaxPeople
    /\ now = 0
    /\ last = [op |-> "none"]
    /\ w = [start |-> DB, proc |-> [i \in Workers |-> Idle]]

Done(i) == w.proc[i].pc = "done"

\* remove_connection, lines 468-469: the DELETE of the row and its commit
CallRemove(i, u, c) ==
    /\ w.proc[i].pc = "idle"
    /\ Commit(DeleteRelationship(DB, u, c))
    /\ w' = [w EXCEPT !.proc[i] =
                [@ EXCEPT !.pc = "login", !.op = "remove_connection",
                          !.user_id = u, !.contact_id = c]]
    /\ UNCHANGED <<people_id_seq, now, last>>

\* line 475: has_login = self.user_has_login(contact_id)
RemoveLogin(i) ==
    /\ w.proc[i].pc = "login"
    /\ LET h == UserHasLogin(DB, w.proc[i].contact_id)
       IN  w' = [w EXCEPT !.proc[i] =
                    [@ EXCEPT !.has_login = h,
                              !.pc = IF h THEN "done" ELSE "count",
                              !.result = h]]
    /\ UNCHANGED <<people, logins, relationships, people_id_seq, now, last>>

\* lines 479-488: the count of the rows that name the contact
RemoveCount(i) ==
    /\ w.proc[i].pc = "count"
    /\ LET n == ConnectionCount(DB, w.proc[i].contact_id)
       IN  w' = [w EXCEPT !.proc[i] =
                    [@ EXCEPT !.count = n,
                              !.pc = IF n = 0 THEN "gc" ELSE "done",
                              !.result = (n # 0)]]
    /\ UNCHANGED <<people, logins, relationships, people_id_seq, now, last>>

\* lines 490-495: the DELETE of the contact and its commit
RemoveGc(i) ==
    /\ w.proc[i].pc = "gc"
    /\ Commit(DeletePeople(DB, w.proc[i].contact_id))
    /\ w' = [w EXCEPT !.proc[i] =
                [@ EXCEPT !.pc = "done", !.result = TRUE,
                          !.gc = RowsOf(DB)
                                 - RowsOf(DeletePeople(DB, w.proc[i].contact_id))]]
    /\ UNCHANGED <<people_id_seq, now, last>>

\* add_connection: one INSERT and its commit
CallAdd(i, u, c, data) ==
    /\ w.proc[i].pc = "idle"
    /\ LET r == add_connection(DB, u, c, data, "none")
       IN  /\ Commit(r.db)
           /\ w' = [w EXCEPT !.proc[i] =
                        [@ EXCEPT !.pc = "done", !.op = "add_connection",
                                  !.user_id = u, !.contact_id = c,
                                  !.result = r.result]]
    /\ UNCHANGED <<people_id_seq, now, last>>

\* update_user_recent_tags, line 625: the list is read
CallTags(i, id, new_tags) ==
    /\ w.proc[i].pc = "idle"
    /\ w' = [w EXCEPT !.proc[i] =
                [@ EXCEPT !.pc = "write", !.op = "update_user_recent_tags",
                          !.user_id = id, !.new_tags = new_tags,
                          !.current_tags = get_user_recent_tags(DB, id)]]
    /\ UNCHANGED <<people, logins, relationships, people_id_seq, now, last>>

\* lines 627-655: the list is built from what was read, written and committed
TagsWrite(i) ==
    /\ w.proc[i].pc = "write"
    /\ LET r == SetRecentTags(DB, w.proc[i].user_id,
                    TagsString(UpdatedTags(w.proc[i].current_tags,
                                           w.proc[i].new_tags, MAX_RECENT_TAGS)))
       IN  /\ Commit(r.db)
           /\ w' = [w EXCEPT !.proc[i] =
                        [@ EXCEPT !.pc = "done", !.result = r.result]]
    /\ UNCHANGED <<people_id_seq, now, last>>

NextConc ==
    \E i \in Workers :
        \/ \E u \in Ids : \E c \in Ids \ {u} : CallRemove(i, u, c)
        \/ RemoveLogin(i)
        \/ RemoveCount(i)
        \/ RemoveGc(i)
        \/ \E u \in Ids : \E c \in Ids \ {u} :
              CallAdd(i, u, c, <<SqlText("Contact"), SqlNull, SqlNull, SqlNull>>)
        \/ \E id \in 1..2, t \in ConcTagLists : CallTags(i, id, t)
        \/ TagsWrite(i)

SpecConc == InitConc /\ [][NextConc]_vars

\* both workers have returned from remove_connection(a, b) and
\* remove_connection(c, b), a # c, and at the start b had no login and
\* exactly the rows a->b and c->b named it as contact
TwoRemovals(i, j) ==
    /\ i # j
    /\ Done(i) /\ Done(j)
    /\ w.proc[i].op = "remove_connection"
    /\ w.proc[j].op = "remove_connection"
    /\ w.proc[i].contact_id = w.proc[j].contact_id
    /\ w.proc[i].user_id # w.proc[j].user_id
    /\ \A l \in w.start.logins : l.people_id # w.proc[i].contact_id
    /\ {r.user_id : r \in {x \in w.start.relationships :
                              x.contact_id = w.proc[i].contact_id}}
          = {w.proc[i].user_id, w.proc[j].user_id}

\* C8: in every interleaving of the two removals both calls return True, b
\* is no longer in people, at most one of the two DELETEs of b removed rows,
\* referential integrity holds, and the database is the one that the two
\* calls run one after the other leave.
C8_ConcurrentRemovals ==
    \A i \in Workers, j \in Workers :
        TwoRemovals(i, j) =>
            LET a == w.proc[i].user_id
                c == w.proc[j].user_id
                b == w.proc[i].contact_id
            IN  /\ w.proc[i].result = TRUE
                /\ w.proc[j].result = TRUE
                /\ b \notin DOMAIN people
                /\ ~(w.proc[i].gc > 0 /\ w.proc[j].gc > 0)
                /\ (w.proc[i].gc > 0 \/ w.proc[j].gc > 0)
                /\ RefIntegrity(people, logins, relationships)
                /\ DB = remove_connection(
                            remove_connection(w.start, a, b, "none").db,
                            c, b, "none").db

\* C8 witness: both removals saw no login and counted no row, both ran the
\* DELETE of b, and the second one found nothing to delete.
C8_Witness ==
    \E i \in Workers, j \in Workers :
        /\ TwoRemovals(i, j)
        /\ ~w.proc[i].has_login /\ ~w.proc[j].has_login
        /\ w.proc[i].count = 0 /\ w.proc[j].count = 0
        /\ w.proc[i].gc > 0
        /\ w.proc[j].gc = 0

\* C9: when two update_user_recent_tags calls on the same person have both
\* returned True, get_user_recent_tags gives the list one of them built from
\* the list it read, with at most MAX_RECENT_TAGS entries and no entry twice.
C9_LastWriterWins ==
    \A i \in Workers, j \in Workers :
        ( /\ i # j
          /\ Done(i) /\ Done(j)
          /\ w.proc[i].op = "update_user_recent_tags"
          /\ w.proc[j].op = "update_user_recent_tags"
          /\ w.proc[i].user_id = w.proc[j].user_id
          /\ w.proc[i].result /\ w.proc[j].result )
        =>
        LET g == get_user_recent_tags(DB, w.proc[i].user_id)
        IN  /\ \/ g = UpdatedTags(w.proc[i].current_tags, w.proc[i].new_tags,
                                  MAX_RECENT_TAGS)
               \/ g = UpdatedTags(w.proc[j].current_tags, w.proc[j].new_tags,
                                  MAX_RECENT_TAGS)
            /\ Len(g) <= MAX_RECENT_TAGS
            /\ NoDuplicates(g)

(***************************************************************************)
(* Python strings that the ingestion pipeline takes apart are sequences of *)
(* characters.                                                             *)
(***************************************************************************)
Whitespace == {" ", "\t", "\n"}

UpperCase ==
    <<"A", "B", "C", "D", "E", "F", "G", "H", "I", "J", "K", "L", "M",
      "N", "O", "P", "Q", "R", "S", "T", "U", "V", "W", "X", "Y", "Z">>

LowerCase ==
    <<"a", "b", "c", "d", "e", "f", "g", "h", "i", "j", "k", "l", "m",
      "n", "o", "p", "q", "r", "s", "t", "u", "v", "w", "x", "y", "z">>

\* c.isupper(), c.lower(), c.upper() of one character
IsUpper(c) == c \in Range(UpperCase)

LowerChar(c) ==
    IF c \in Range(UpperCase)
    THEN LowerCase[CHOOSE i \in 1..Len(UpperCase) : UpperCase[i] = c]
    ELSE c

UpperChar(c) ==
    IF c \in Range(LowerCase)
    THEN UpperCase[CHOOSE i \in 1..Len(LowerCase) : LowerCase[i] = c]
    ELSE c

\* str.lower()
Lower(s) == [i \in 1..Len(s) |-> LowerChar(s[i])]

\* str.capitalize(): the first character upper case, the rest lower case
Capitalize(s) ==
    [i \in 1..Len(s) |-> IF i = 1 THEN UpperChar(s[i]) ELSE LowerChar(s[i])]

\* str.lstrip(chars), str.rstrip(chars), str.strip(chars), str.strip()
RECURSIVE LStrip(_, _)
LStrip(s, chars) ==
    IF s # <<>> /\ Head(s) \in chars THEN LStrip(Tail(s), chars) ELSE s

RECURSIVE RStrip(_, _)
RStrip(s, chars) ==
    IF s # <<>> /\ s[Len(s)] \in chars
    THEN RStrip(SubSeq(s, 1, Len(s) - 1), chars)
    ELSE s

StripChars(s, chars) == RStrip(LStrip(s, chars), chars)

Strip(s) == StripChars(s, Whitespace)

\* the length of the first word of a string that starts with one
RECURSIVE WordEnd(_, _)
WordEnd(s, i) ==
    IF i > Len(s) \/ s[i] \in Whitespace THEN i - 1 ELSE WordEnd(s, i + 1)

\* str.split(): the maximal runs of characters that are not whitespace
RECURSIVE SplitWhitespace(_)
SplitWhitespace(s) ==
    LET t == LStrip(s, Whitespace)
    IN  IF t = <<>> THEN <<>>
        ELSE <<SubSeq(t, 1, WordEnd(t, 1))>>
                \o SplitWhitespace(SubSeq(t, WordEnd(t, 1) + 1, Len(t)))

\* ' '.join(words)
RECURSIVE JoinSpace(_)
JoinSpace(words) ==
    IF words = <<>> THEN <<>>
    ELSE IF Len(words) = 1 THEN words[1]
    ELSE words[1] \o <<" ">> \o JoinSpace(Tail(words))

\* needle in hay, for strings
Contains(hay, needle) ==
    \E i \in 0..(Len(hay) - Len(needle)) :
        SubSeq(hay, i + 1, i + Len(needle)) = needle

(***************************************************************************)
(* newContact.py: extraction of the fields of a person from free text.     *)
(* The answer of the completion service is an input: kind "none" is no     *)
(* answer (the call raised, returned None or the empty string), "invalid"  *)
(* text that json.loads rejects, "array" JSON that is not an object, and   *)
(* "object" a JSON object, data being its dictionary.                      *)
(***************************************************************************)
USER_FIELDS ==
    {"first_name", "last_name", "email", "phone_number", "gender",
     "ethnicity", "birthday", "location", "high_school", "university",
     "uni_major", "job_title", "current_company", "field_of_interest",
     "profile_image_url", "linkedin_url"}

\* Python's truth of an Optional[str]
Truthy(v) == v # SqlNull /\ v[1] # <<>>

NoData == <<>>

\* _basic_text_extraction
BasicTextExtractionNoNote(text) ==
    LET words == SplitWhitespace(Strip(text))
    IN  IF Len(words) < 2
        THEN [success |-> FALSE, user_data |-> NoData, message |-> "names"]
        ELSE [success |-> TRUE,
              user_data |->
                [k \in USER_FIELDS \cup {"note"} |->
                    IF k = "first_name" THEN SqlText(words[1])
                    ELSE IF k = "last_name" THEN SqlText(words[2])
                    ELSE IF k = "note" THEN SqlText(<<>>)
                    ELSE SqlNull],
              message |-> "basic"]

basic_text_extraction(text) ==
    LET words == SplitWhitespace(Strip(text))
    IN  IF Len(words) < 2
        THEN [success |-> FALSE, user_data |-> NoData, message |-> "names"]
        ELSE [success |-> TRUE,
              user_data |->
                [k \in USER_FIELDS \cup {"note"} |->
                    IF k = "first_name" THEN SqlText(words[1])
                    ELSE IF k = "last_name" THEN SqlText(words[2])
                    ELSE IF k = "note"
                    THEN IF Len(words) > 2 THEN SqlText(text)
                         ELSE SqlText(<<>>)
                    ELSE SqlNull],
              message |-> "basic"]

\* the words of text.lower(), stripped of '.,;:', that are in no value of
\* structured_info, in their order
RECURSIVE RemainingInfo(_, _)
RemainingInfo(words, structured_info) ==
    IF words = <<>> THEN <<>>
    ELSE LET word == StripChars(Head(words), {".", ",", ";", ":"})
             rest == RemainingInfo(Tail(words), structured_info)
         IN  IF word # <<>> /\ \A info \in structured_info : ~Contains(info, word)
             THEN <<word>> \o rest
             ELSE rest

\* sum(len(str(v)) for k, v in extracted_data.items()
\*     if k != "note" and v is not None)
RECURSIVE TotalStructuredLength(_, _)
TotalStructuredLength(d, keys) ==
    IF keys = {} THEN 0
    ELSE LET k == CHOOSE x \in keys : TRUE
         IN  (IF k # "note" /\ d[k] # SqlNull THEN Len(d[k][1]) ELSE 0)
                + TotalStructuredLength(d, keys \ {k})

AdditionalInformation ==
    <<"A", "d", "d", "i", "t", "i", "o", "n", "a", "l", " ", "i", "n", "f",
      "o", "r", "m", "a", "t", "i", "o", "n", ":", " ">>

\* lines 249-254: every field of USER_FIELDS present, "" turned into None
Sanitized(data) ==
    [k \in DOMAIN data \cup USER_FIELDS |->
        IF k \in USER_FIELDS /\ ~Truthy(Get(data, k)) THEN SqlNull
        ELSE data[k]]

\* lines 256-278: a missing note is built from the words of the text
WithNote(d, text) ==
    IF "note" \in DOMAIN d THEN d
    ELSE LET structured_info ==
                {Lower(d[f][1]) : f \in {g \in USER_FIELDS : Truthy(d[g])}}
             remaining_info ==
                RemainingInfo(SplitWhitespace(Lower(text)), structured_info)
         IN  [k \in DOMAIN d \cup {"note"} |->
                IF k = "note" THEN SqlText(JoinSpace(remaining_info))
                ELSE d[k]]

\* lines 282-288: a note that is missing or shorter than 10 characters is
\* replaced by the whole text when the text is more than 20 characters
\* longer than the structured values
DoubleChecked(d, text) ==
    IF (~Truthy(d["note"]) \/ Len(Strip(d["note"][1])) < 10)
       /\ Len(Strip(text)) > TotalStructuredLength(d, DOMAIN d) + 20
    THEN [d EXCEPT !["note"] = SqlText(AdditionalInformation \o text)]
    ELSE d

\* process_contact_text
ProcessContactTextFallBack(text, openai) ==
    IF Len(Strip(text)) < 5
    THEN [success |-> FALSE, user_data |-> NoData, message |-> "short"]
    ELSE IF ~openai.working \/ openai.extraction.kind \in {"none", "invalid"}
    THEN basic_text_extraction(text)
    ELSE IF openai.extraction.kind = "array"
    THEN basic_text_extraction(text)
    ELSE LET data == openai.extraction.data
         IN  IF ~Truthy(Get(data, "first_name"))
                \/ ~Truthy(Get(data, "last_name"))
             THEN basic_text_extraction(text)
             ELSE [success |-> TRUE,
                   user_data |->
                        DoubleChecked(WithNote(Sanitized(data), text), text),
                   message |-> "extracted"]

ProcessContactTextNoMinimum(text, openai) ==
    IF ~openai.working \/ openai.extraction.kind \in {"none", "invalid"}
    THEN basic_text_extraction(text)
    ELSE [success |-> FALSE, user_data |-> NoData, message |-> "error"]

process_contact_text(text, openai) ==
    IF Len(Strip(text)) < 5
    THEN [success |-> FALSE, user_data |-> NoData, message |-> "short"]
    ELSE IF ~openai.working \/ openai.extraction.kind \in {"none", "invalid"}
    THEN basic_text_extraction(text)
    ELSE IF openai.extraction.kind = "array"
    THEN [success |-> FALSE, user_data |-> NoData, message |-> "error"]
    ELSE LET data == openai.extraction.data
         IN  IF ~Truthy(Get(data, "first_name"))
                \/ ~Truthy(Get(data, "last_name"))
             THEN [success |-> FALSE, user_data |-> NoData,
                   message |-> "names"]
             ELSE [success |-> TRUE,
                   user_data |->
                        DoubleChecked(WithNote(Sanitized(data), text), text),
                   message |-> "extracted"]

\* the default relationship type
Contact == <<"C", "o", "n", "t", "a", "c", "t">>

\* generate_relationship_description, lines 322-340: the profile of the
\* requester, a line for every field with a value (the row of people has no
\* field_of_interest)
UserProfileEmpty(user_info) ==
    /\ Strip(Get(user_info, "first_name")[1] \o <<" ">>
                \o Get(user_info, "last_name")[1]) = <<>>
    /\ \A k \in {"location", "high_school", "university", "uni_major",
                 "job_title", "current_company", "field_of_interest"} :
            ~Truthy(Get(user_info, k))

\* lines 380-396: the answer stripped, cut to 50 characters and, unless
\* every word starts with an upper-case letter, capitalised word by word
MaxLabel == 50

SanitizedLabelNoCut(response) ==
    LET relationship ==
            StripChars(Strip(response), {"\"", "'", ".", ",", ";", ":"})
        words == SplitWhitespace(relationship)
    IN  IF words = <<>> THEN Contact
        ELSE IF \A i \in 1..Len(words) : IsUpper(words[i][1])
        THEN relationship
        ELSE JoinSpace([i \in 1..Len(words) |-> Capitalize(words[i])])

SanitizedLabel(response) ==
    LET relationship ==
            Take(StripChars(Strip(response),
                            {"\"", "'", ".", ",", ";", ":"}), MaxLabel)
        words == SplitWhitespace(relationship)
    IN  IF words = <<>> THEN Contact
        ELSE IF \A i \in 1..Len(words) : IsUpper(words[i][1])
        THEN relationship
        ELSE JoinSpace([i \in 1..Len(words) |-> Capitalize(words[i])])

\* generate_relationship_description; openai.label is the answer of the
\* completion service, SqlNull when the call raised or gave None
generate_relationship_description(user_info, openai) ==
    IF ~openai.working THEN Contact
    ELSE IF UserProfileEmpty(user_info) THEN Contact
    ELSE IF ~Truthy(openai.label) THEN Contact
    ELSE SanitizedLabel(openai.label[1])

(***************************************************************************)
(* api.py, create_contact: the statements between the acquisitions of the  *)
(* connection.  custom_tags is the request's "tags": kind "none" (absent   *)
(* or empty), "list" (a list of tags) or "str" (one comma-separated        *)
(* string).  fail names the call at which the store raises.                *)
(***************************************************************************)
\* lines 498-510
ConnectionTags(custom_tags) ==
    IF custom_tags.kind = "list" /\ custom_tags.value # <<>>
    THEN SqlText(Join(custom_tags.value))
    ELSE IF custom_tags.kind = "str" /\ Strip(custom_tags.value) # <<>>
    THEN SqlText(custom_tags.value)
    ELSE SqlNull

\* [tag.strip() for tag in custom_tags.split(',') if tag.strip()]
RECURSIVE StrippedTags(_)
StrippedTags(parts) ==
    IF parts = <<>> THEN <<>>
    ELSE IF Strip(Head(parts)) = <<>> THEN StrippedTags(Tail(parts))
    ELSE <<Strip(Head(parts))>> \o StrippedTags(Tail(parts))

\* lines 524-532 and 587-595
TagList(custom_tags) ==
    IF custom_tags.kind = "list" THEN custom_tags.value
    ELSE IF custom_tags.kind = "str" /\ custom_tags.value # <<>>
    THEN StrippedTags(Split(custom_tags.value))
    ELSE <<>>

create_contact(db, id, user_id, contact_text, custom_tags, openai, fail) ==
    LET extraction == process_contact_text(contact_text, openai)
        failed(status) ==
            [db |-> db, status |-> status, created |-> FALSE,
             connection_error |-> FALSE, label |-> Contact,
             extraction |-> extraction]
    IN  IF ~PersonExists(db, user_id) \/ fail = "get_user"
        THEN failed(404)
        ELSE IF ~extraction.success
        THEN failed(400)
        ELSE
        LET user_data == extraction.user_data
            label == generate_relationship_description(db.people[user_id],
                                                       openai)
            added == add_user(db, id, user_data,
                              IF fail = "add_user" THEN "insert" ELSE "none")
        IN  IF fail \in {"current_user", "add_user"}
            THEN failed(500)
            ELSE
            LET connected ==
                    add_connection(added.db, user_id, id,
                        <<SqlText(label), Get(user_data, "note"),
                          ConnectionTags(custom_tags),
                          Get(user_data, "what_they_are_working_on")>>,
                        IF fail = "add_connection" THEN "insert" ELSE "none")
                tag_list == TagList(custom_tags)
                tagged ==
                    IF connected.result /\ tag_list # <<>>
                    THEN update_user_recent_tags(connected.db, user_id,
                            tag_list, MAX_RECENT_TAGS,
                            IF fail = "tags" THEN "update" ELSE "none").db
                    ELSE connected.db
            IN  [db |-> tagged, status |-> 201, created |-> TRUE,
                 connection_error |-> ~connected.result, label |-> label,
                 extraction |-> extraction]

(***************************************************************************)
(* The ingestion pipeline (SpecIngest): persons 1 and 2 exist, each call   *)
(* of create_contact draws the requester, the text, the tags, the answers  *)
(* of the completion service and the call at which the store raises.       *)
(***************************************************************************)
ContactTexts ==
    {<<>>,
     <<"A", "l">>,
     <<" ", " ", "A", "l", " ">>,
     <<"A", " ", "L", "i">>,
     <<"A", "l", "e", "x", "a">>,
     <<"J", "o", " ", "L", "i">>,
     <<"J", "o", " ", "L", "i", " ", "C", "M", "U">>,
     <<"J", "o", " ", "L", "i", " ", "C", "M", "U", " ", "C", "M", "U", " ", "C", "M", "U", " ", "C", "M", "U", " ", "C", "M", "U", " ", "C", "M", "U">>}

\* the request's tags
CustomTags ==
    {[kind |-> "none", value |-> <<>>],
     [kind |-> "list", value |-> <<<<"d">>>>],
     [kind |-> "list", value |-> <<<<"a", Comma, "b">>>>],
     [kind |-> "list", value |-> <<<<"work">>, <<"d">>>>],
     [kind |-> "str", value |-> <<"a", Comma, " ", "d">>]}

\* answers of the completion service to the extraction prompt
ExtractionAnswers ==
    {[kind |-> "none", data |-> NoData],
     [kind |-> "invalid", data |-> NoData],
     [kind |-> "array", data |-> NoData],
     [kind |-> "object",
      data |-> [first_name |-> SqlNull, last_name |-> SqlText(<<"L", "i">>)]],
     [kind |-> "object",
      data |-> [first_name |-> SqlText(<<"J", "o">>), last_name |-> SqlText(<<>>),
                note |-> SqlText(<<>>)]],
     [kind |-> "object",
      data |-> [first_name |-> SqlText(<<"J", "o">>), last_name |-> SqlText(<<"L", "i">>),
                university |-> SqlText(<<"C", "M", "U">>), email |-> SqlText(<<>>),
                note |-> SqlText(<<>>)]],
     [kind |-> "object",
      data |-> [first_name |-> SqlText(<<"J", "o">>), last_name |-> SqlText(<<"L", "i">>),
                birthday |-> SqlText(<<"1", "9", "9", "0">>),
                note |-> SqlText(<<"m", "e", "t", " ", "a", "t", " ", "a", " ", "h", "a", "c", "k", "a", "t", "h", "o", "n">>)]],
     [kind |-> "object",
      data |-> [first_name |-> SqlText(<<"J", "o">>), last_name |-> SqlText(<<"L", "i">>)]],
     [kind |-> "object",
      data |-> [first_name |-> SqlText(<<"J", "o">>), last_name |-> SqlText(<<"L", "i">>),
                note |-> SqlNull,
                what_they_are_working_on |-> SqlText(<<"A", "I">>)]]}

\* answers of the completion service to the label prompt
LongAnswer == [i \in 1..(MaxLabel + 2) |-> IF i % 7 = 0 THEN " " ELSE "x"]

LabelAnswers ==
    {SqlNull,
     SqlText(<<>>),
     SqlText(<<"c", "o", "l", "l", "e", "g", "e", " ", "f", "r", "i", "e", "n", "d">>),
     SqlText(<<"\"", "W", "o", "r", "k", " ", "C", "o", "l", "l", "e", "a", "g", "u", "e", "\"", ".">>),
     SqlText(<<"C", "O", "L", "L", "E", "G", "E", " ", "p", "a", "l">>),
     SqlText(LongAnswer)}

OpenAI ==
    {[working |-> FALSE, extraction |-> [kind |-> "none", data |-> NoData],
      label |-> SqlNull]}
    \cup
    {[working |-> TRUE, extraction |-> e, label |-> SqlNull] :
        e \in ExtractionAnswers}
    \cup
    {[working |-> TRUE,
      extraction |-> [kind |-> "none", data |-> NoData], label |-> l] :
        l \in LabelAnswers}

IngestFailures ==
    {"none", "get_user", "current_user", "add_user", "add_connection", "tags"}

Requester ==
    [c \in PeopleColumns |->
        IF c = "first_name" THEN SqlText(<<"A", "n", "n">>)
        ELSE IF c = "last_name" THEN SqlText(<<"L", "e", "e">>)
        ELSE IF c = "recent_tags" THEN SqlText(DEFAULT_TAGS)
        ELSE SqlNull]

\* the lists of recent tags the requester may start with
StartTags == {DEFAULT_TAGS, <<"d", Comma, "work">>}

InitIngest ==
    /\ \E t \in StartTags :
          people = [p \in {1, 2} |->
                        IF p = 1
                        THEN [Requester EXCEPT !["recent_tags"] = SqlText(t)]
                        ELSE Requester]
    /\ logins = {}
    /\ relationships \in {{}, {Row(1, 2)}}
    /\ people_id_seq = 2
    /\ now = 0
    /\ last = [op |-> "none", n |-> 0]
    /\ w = NoWorkers

CreateContact(user_id, contact_text, custom_tags, openai, fail) ==
    /\ people_id_seq < MaxPeople
    /\ last.n < MaxIngests
    /\ LET id == people_id_seq + 1
           r == create_contact(DB, id, user_id, contact_text, custom_tags,
                               openai, fail)
       IN  /\ Commit(r.db)
           /\ people_id_seq' = IF r.created THEN id ELSE people_id_seq
           /\ last' = [op |-> "create_contact", n |-> last.n + 1,
                       user_id |-> user_id,
                       contact_text |-> contact_text,
                       custom_tags |-> custom_tags, openai |-> openai,
                       fail |-> fail, new_user_id |-> id,
                       status |-> r.status, created |-> r.created,
                       connection_error |-> r.connection_error,
                       label |-> r.label, extraction |-> r.extraction]
    /\ UNCHANGED <<now, w>>

NextIngest ==
    /\ last.n < MaxIngests
    /\ \E u \in Ids, t \in ContactTexts, c \in CustomTags, o \in OpenAI,
          f \in IngestFailures :
            CreateContact(u, t, c, o, f)

SpecIngest == InitIngest /\ [][NextIngest]_vars

(***************************************************************************)
(* Properties of the ingestion pipeline (SpecIngest).  In an action        *)
(* formula last' describes the call of create_contact that the step makes, *)
(* the unprimed tables are the database before it and the primed tables    *)
(* the database it leaves.                                                 *)
(***************************************************************************)
IsIngest(l) == l.op = "create_contact"

\* the whitespace-separated tokens of the text of a call
Tokens(l) == SplitWhitespace(l.contact_text)

\* the text is long enough and has a first and a last name
TextSuffices(l) == Len(Strip(l.contact_text)) >= 5 /\ Len(Tokens(l)) >= 2

\* the completion service is unconfigured or unreachable
Degraded(l) == ~l.openai.working \/ l.openai.extraction.kind = "none"

\* the call found its requester and the store raised nowhere
Undisturbed(l) == l.fail = "none" /\ l.user_id \in DOMAIN people

\* the row user_id -> contact_id of a table of relationships
TheEdge(R, u, c) == CHOOSE r \in R : r.user_id = u /\ r.contact_id = c

\* every token but the names is in the note
NoteKeepsTokens(note, l) ==
    \A i \in 1..Len(Tokens(l)) :
        Tokens(l)[i] \notin {Tokens(l)[1], Tokens(l)[2]}
            => note # SqlNull /\ Contains(note[1], Tokens(l)[i])

Unparsable(l) == l.openai.working /\ l.openai.extraction.kind = "invalid"

Nameless(l) ==
    /\ l.openai.working
    /\ \/ l.openai.extraction.kind = "array"
       \/ /\ l.openai.extraction.kind = "object"
          /\ \/ ~Truthy(Get(l.openai.extraction.data, "first_name"))
             \/ ~Truthy(Get(l.openai.extraction.data, "last_name"))

FellBack(l) ==
    /\ l.extraction.success
    /\ l.extraction.user_data["first_name"] = SqlText(Tokens(l)[1])
    /\ l.extraction.user_data["last_name"] = SqlText(Tokens(l)[2])
    /\ l.status = 201

Created(l) == IsIngest(l) /\ l.status = 201

\* the edges from the requester to the person the ingest created
NewEdges(R, l) == EdgeAt([relationships |-> R], l.user_id, l.new_user_id)

\* a string is kept when it is part of a column of the created person or of
\* the created edge, letter case and surrounding punctuation aside
KeptIn(row, columns, v) ==
    \E c \in columns :
        row[c] # SqlNull
            /\ Contains(Lower(row[c][1]),
                        Lower(StripChars(v, {".", ",", ";", ":"})))

Kept(P, R, l, v) ==
    \/ KeptIn(P[l.new_user_id], PeopleColumns \ {"recent_tags"}, v)
    \/ \E r \in NewEdges(R, l) :
            KeptIn(r, {"notes", "what_they_are_working_on"}, v)

SuppliedTags(l) ==
    IF l.custom_tags.kind = "list" THEN Range(l.custom_tags.value)
    ELSE IF l.custom_tags.kind = "str"
    THEN Range(StrippedTags(Split(l.custom_tags.value)))
    ELSE {}

\* the lists of recent tags of the persons of P, but of person u
SameTagsBut(P, Q, u) ==
    \A p \in DOMAIN P \ {u} :
        p \in DOMAIN Q /\ Q[p]["recent_tags"] = P[p]["recent_tags"]

NoLabelAnswer(l) ==
    \/ ~l.openai.working
    \/ ~Truthy(l.openai.label)
    \/ SplitWhitespace(StripChars(Strip(l.openai.label[1]),
                                  {"\"", "'", ".", ",", ";", ":"})) = <<>>

get_user_connections(db, user_id) ==
    {[id |-> r.contact_id,
      username |-> n,
      person |-> [k \in PeopleColumns \ {"recent_tags"} |->
                    Get(db.people[r.contact_id], k)],
      relationship_description |-> r.relationship_description,
      custom_note |-> r.notes,
      tags |-> r.tags,
      what_they_are_working_on |-> r.what_they_are_working_on,
      last_viewed |-> r.last_viewed] :
        <<r, n>> \in
            {<<r, n>> \in db.relationships
                    \X ({SqlNull} \cup {SqlText(l.username) : l \in db.logins}) :
                /\ r.user_id = user_id
                /\ IF UserHasLogin(db, r.contact_id)
                   THEN \E l \in db.logins :
                            l.people_id = r.contact_id /\ n = SqlText(l.username)
                   ELSE n = SqlNull}}

\* the keys of data that update_connection writes
Updateable ==
    {"notes", "tags", "relationship_description", "what_they_are_working_on"}

\* the SET clause of update_connection applied to a row: the supplied keys
\* of the list, and last_viewed = NOW()
UpdatedRowAnyKey(r, data) ==
    [k \in DOMAIN r |->
        IF k = "last_viewed" THEN SqlText(now)
        ELSE IF k \in DOMAIN data THEN data[k]
        ELSE r[k]]

UpdatedRow(r, data) ==
    [k \in DOMAIN r |->
        IF k = "last_viewed" THEN SqlText(now)
        ELSE IF k \in Updateable \cap DOMAIN data THEN data[k]
        ELSE r[k]]

\* update_connection
update_connection(db, u, c, data, fail) ==
    IF fail = "update"
    THEN [db |-> db, result |-> FALSE]
    ELSE [db |-> [db EXCEPT !.relationships =
                    {IF r.user_id = u /\ r.contact_id = c
                     THEN UpdatedRow(r, data) ELSE r : r \in @}],
          result |-> TRUE]

\* update_last_viewed
update_last_viewed(db, u, c, fail) ==
    IF fail = "update"
    THEN [db |-> db, result |-> FALSE]
    ELSE [db |-> [db EXCEPT !.relationships =
                    {IF r.user_id = u /\ r.contact_id = c
                     THEN [r EXCEPT !.last_viewed = SqlText(now)]
                     ELSE r : r \in @}],
          result |-> TRUE]

\* the data of a call of update_connection
UpdateData ==
    {<<>>,
     [notes |-> SqlText("met again")],
     [tags |-> SqlText("work"), relationship_description |-> SqlText("Boss")],
     [what_they_are_working_on |-> SqlNull, notes |-> SqlText("met again")],
     [contact_id |-> 3, last_viewed |-> SqlNull],
     [user_id |-> 2, notes |-> SqlNull]}

\* rows the graph may start with
FullRow(u, c) ==
    [user_id |-> u, contact_id |-> c,
     relationship_description |-> SqlText("Contact"),
     notes |-> SqlText("met at a hackathon"), tags |-> SqlText("work,tech"),
     what_they_are_working_on |-> SqlText("a startup"),
     last_viewed |-> SqlNull]

InitEdges ==
    /\ people = [p \in Ids |-> Requester]
    /\ logins = {LoginRow(2)}
    /\ relationships \in
            {{}, {Row(1, 2), FullRow(2, 1)}, {FullRow(2, 1), FullRow(3, 2)}}
    /\ people_id_seq = MaxPeople
    /\ now = 1
    /\ last = [op |-> "none"]
    /\ w = NoWorkers

UpdateConnection(u, c, data, fail) ==
    /\ now < MaxTime
    /\ LET r == update_connection(DB, u, c, data, fail)
       IN  /\ Commit(r.db)
           /\ last' = [op |-> "update_connection", user_id |-> u,
                       contact_id |-> c, data |-> data, result |-> r.result]
    /\ now' = now + 1
    /\ UNCHANGED <<people_id_seq, w>>

UpdateLastViewed(u, c, fail) ==
    /\ now < MaxTime
    /\ LET r == update_last_viewed(DB, u, c, fail)
       IN  /\ Commit(r.db)
           /\ last' = [op |-> "update_last_viewed", user_id |-> u,
                       contact_id |-> c, result |-> r.result]
    /\ now' = now + 1
    /\ UNCHANGED <<people_id_seq, w>>

\* PUT /connections, lines 357-370: the tags of the body as the column's
\* value; a list is joined, the empty list and the empty string become None
NormalizedTags(tags) ==
    IF tags.kind = "list"
    THEN IF tags.value # <<>> THEN SqlText(Join(tags.value)) ELSE SqlNull
    ELSE IF tags.value = <<>> THEN SqlNull ELSE SqlText(tags.value)

\* lines 354-378: the body without user_id and contact_id, tags normalised,
\* note renamed to notes.  A body is [tags, note]: tags of kind "none" and a
\* note of NoData stand for keys the body does not have.
PutUpdateData(body) ==
    [k \in (IF body.tags.kind # "none" THEN {"tags"} ELSE {})
            \cup (IF body.note # NoData THEN {"notes"} ELSE {}) |->
        IF k = "tags" THEN NormalizedTags(body.tags) ELSE body.note[1]]

\* PUT /connections: 400 when nothing is left to update; update_connection;
\* when it returned True and the body's tags are not empty, the tags go to
\* update_user_recent_tags of user_id, whose result is not looked at
api_update_connection(db, user_id, contact_id, body, fail) ==
    LET update_data == PutUpdateData(body)
        updated == update_connection(db, user_id, contact_id, update_data,
                        IF fail = "update" THEN "update" ELSE "none")
        tag_list == TagList(body.tags)
    IN  IF DOMAIN update_data = {}
        THEN [db |-> db, status |-> 400]
        ELSE IF ~updated.result
        THEN [db |-> db, status |-> 500]
        ELSE IF body.tags.kind # "none" /\ body.tags.value # <<>>
                /\ tag_list # <<>>
        THEN [db |-> update_user_recent_tags(updated.db, user_id, tag_list,
                        MAX_RECENT_TAGS,
                        IF fail = "tags" THEN "update" ELSE "none").db,
              status |-> 200]
        ELSE [db |-> updated.db, status |-> 200]

\* bodies of PUT /connections
PutBodies ==
    {[tags |-> [kind |-> "none", value |-> <<>>], note |-> NoData],
     [tags |-> [kind |-> "none", value |-> <<>>],
      note |-> <<SqlText("met again")>>],
     [tags |-> [kind |-> "list", value |-> <<>>], note |-> NoData],
     [tags |-> [kind |-> "list", value |-> <<<<"work">>, <<"d">>>>],
      note |-> NoData],
     [tags |-> [kind |-> "str", value |-> <<"d">>],
      note |-> <<SqlNull>>]}

PutConnection(u, c, body, fail) ==
    /\ now < MaxTime
    /\ LET r == api_update_connection(DB, u, c, body, fail)
       IN  /\ Commit(r.db)
           /\ last' = [op |-> "put_connection", user_id |-> u,
                       contact_id |-> c, body |-> body, fail |-> fail,
                       status |-> r.status]
    /\ now' = now + 1
    /\ UNCHANGED <<people_id_seq, w>>

NextEdges ==
    \/ \E u \in Ids, c \in Ids, d \in EdgeData, f \in {"none", "insert"} :
          AddConnection(u, c, d, f)
    \/ \E u \in Ids, c \in Ids, b \in PutBodies,
          f \in {"none", "update", "tags"} :
          PutConnection(u, c, b, f)
    \/ \E u \in Ids, c \in Ids, d \in UpdateData, f \in {"none", "update"} :
          UpdateConnection(u, c, d, f)
    \/ \E u \in Ids, c \in Ids, f \in {"none", "update"} :
          UpdateLastViewed(u, c, f)

SpecEdges == InitEdges /\ [][NextEdges]_vars

\* the call that last describes is a write of the edge a -> b
IsEdgeWrite(l) ==
    l.op \in {"add_connection", "update_connection", "update_last_viewed"}

\* C18: edges are one-directional: add_connection(a, b), update_connection(a,
\* b, ...) and update_last_viewed(a, b) never create or modify the reverse
\* edge b -> a, so get_user_connections(b) is the same before and after.
C18_OneDirectional ==
    [][IsEdgeWrite(last') =>
        /\ EdgeAt(DB', last'.contact_id, last'.user_id)
                = EdgeAt(DB, last'.contact_id, last'.user_id)
        /\ get_user_connections(DB', last'.contact_id)
                = get_user_connections(DB, last'.contact_id)]_vars

\* C19: a write to an existing edge touches only what it names:
\* update_connection sets exactly the supplied fields among
\* relationship_description, notes, tags and what_they_are_working_on,
\* ignores any other key and always sets last_viewed to the current time;
\* update_last_viewed sets last_viewed and nothing else; neither changes
\* another edge or a person.
C19_WritesOnlyWhatItNames ==
    [][(last'.op \in {"update_connection", "update_last_viewed"}
            /\ last'.result)
        => LET u == last'.user_id
               c == last'.contact_id
               data == IF last'.op = "update_connection" THEN last'.data
                       ELSE <<>>
           IN  /\ people' = people
               /\ logins' = logins
               /\ relationships' \ EdgeAt(DB', u, c)
                        = relationships \ EdgeAt(DB, u, c)
               /\ Cardinality(EdgeAt(DB', u, c)) = Cardinality(EdgeAt(DB, u, c))
               /\ EdgeAt(DB, u, c) # {} =>
                    LET old == TheEdge(relationships, u, c)
                        new == TheEdge(relationships', u, c)
                    IN  /\ new.last_viewed = SqlText(now)
                        /\ \A k \in Updateable :
                                new[k] = IF k \in DOMAIN data THEN data[k]
                                         ELSE old[k]
                        /\ new.user_id = u /\ new.contact_id = c]_vars

C19_Witness ==
    /\ last.op = "update_connection" /\ last.result
    /\ last.data = [contact_id |-> 3, last_viewed |-> SqlNull]
    /\ \E r \in EdgeAt(DB, last.user_id, last.contact_id) :
            r.last_viewed = SqlText(now - 1) /\ r.notes # SqlNull

(***************************************************************************)
(* Logins (SpecLogins): persons are created, with or without a username    *)
(* and a password, and logins are added to the persons there are.          *)
(***************************************************************************)
LoginNames == {"daniel", "max"}
Secrets == {"password", "letmein"}

\* validate_login: the SELECT of the row with the username and the passkey,
\* and, when fetchone found one, the UPDATE of last_login and the commit.  An
\* exception of either statement is caught and None returned; nothing was
\* committed then.
ValidateLoginAnyPasskey(db, username, passkey, fail) ==
    LET rows == {l \in db.logins : l.username = username}
    IN  IF fail = "select" \/ rows = {} \/ fail = "update"
        THEN [db |-> db, result |-> SqlNull]
        ELSE [db |-> [db EXCEPT !.logins =
                        {IF l \in rows
                         THEN [l EXCEPT !.last_login = SqlText(now)]
                         ELSE l : l \in @}],
              result |-> SqlText((CHOOSE l \in rows : TRUE).people_id)]

validate_login(db, username, passkey, fail) ==
    LET rows == {l \in db.logins :
                    l.username = username /\ l.passkey = passkey}
    IN  IF fail = "select" \/ rows = {} \/ fail = "update"
        THEN [db |-> db, result |-> SqlNull]
        ELSE [db |-> [db EXCEPT !.logins =
                        {IF l \in rows
                         THEN [l EXCEPT !.last_login = SqlText(now)]
                         ELSE l : l \in @}],
              result |-> SqlText((CHOOSE l \in rows : TRUE).people_id)]

ValidateLogin(username, passkey, fail) ==
    /\ now < MaxTime
    /\ LET r == validate_login(DB, username, passkey, fail)
       IN  /\ Commit(r.db)
           /\ last' = [op |-> "validate_login", username |-> username,
                       passkey |-> passkey, fail |-> fail,
                       result |-> r.result]
    /\ now' = now + 1
    /\ UNCHANGED <<people_id_seq, w>>

LoginUserData ==
    {[first_name |-> SqlText("Ann"), last_name |-> SqlText("Lee")]}
    \cup
    {[first_name |-> SqlText("Ann"), last_name |-> SqlText("Lee"),
      username |-> SqlText(u), password |-> SqlText(p)] :
        u \in LoginNames, p \in Secrets}

\* request bodies and user_data without a usable first_name or last_name:
\* the key absent, null, or the empty string
NamelessUserData ==
    {[last_name |-> SqlText("Lee")],
     [first_name |-> SqlText("Ann"), username |-> SqlText("max")],
     [first_name |-> SqlNull, last_name |-> SqlText("Lee"),
      username |-> SqlText("max")],
     [first_name |-> SqlText(""), last_name |-> SqlText("Lee"),
      username |-> SqlText("max")],
     [first_name |-> SqlText("Ann"), last_name |-> SqlText("")]}

\* POST /people: 400 when username, first_name or last_name is not a key of
\* the body, 500 when add_user raises, 201 otherwise.  add_user pops username
\* and password from the body it is handed, so the handler's own
\* "if 'password' in data" finds no password after a call that returned.
api_add_user(db, id, data, fail) ==
    IF \E field \in {"username", "first_name", "last_name"} :
            field \notin DOMAIN data
    THEN [db |-> db, status |-> 400]
    ELSE IF AddUserRaises(data, fail)
    THEN [db |-> db, status |-> 500]
    ELSE [db |-> add_user(db, id, data, fail).db, status |-> 201]

PostPeople(data, fail) ==
    /\ people_id_seq < MaxPeople
    /\ LET id == people_id_seq + 1
           r == api_add_user(DB, id, data, fail)
       IN  /\ Commit(r.db)
           /\ people_id_seq' = IF r.status = 201 THEN id ELSE people_id_seq
           /\ last' = [op |-> "post_people", data |-> data,
                       status |-> r.status]
    /\ UNCHANGED <<now, w>>

InitLogins ==
    /\ people = [p \in {1} |-> PeopleRow(CHOOSE d \in LoginUserData :
                                            "username" \notin DOMAIN d)]
    /\ logins = {}
    /\ relationships = {}
    /\ people_id_seq = 1
    /\ now = 0
    /\ last = [op |-> "none"]
    /\ w = NoWorkers

NextLogins ==
    \/ \E d \in LoginUserData \cup NamelessUserData, f \in {"none", "insert"} :
          AddUser(d, f)
    \/ \E d \in LoginUserData \cup NamelessUserData, f \in {"none", "insert"} :
          PostPeople(d, f)
    \/ \E i \in Ids, u \in LoginNames, p \in Secrets,
          f \in {"none", "insert"} :
          AddUserLogin(i, u, p, f)
    \/ \E u \in LoginNames, p \in Secrets,
          f \in {"none", "select", "update"} :
          ValidateLogin(u, p, f)

SpecLogins == InitLogins /\ [][NextLogins]_vars

\* C20: add_user_login fails and changes nothing when the username is taken
\* or the person already has a login, so each person has at most one login
\* and each username belongs to at most one login.
C20_OneLoginEach ==
    /\ \A p \in Ids : Cardinality({l \in logins : l.people_id = p}) <= 1
    /\ \A u \in LoginNames : Cardinality({l \in logins : l.username = u}) <= 1

\* the logins with a username and a passkey
Matching(L, username, passkey) ==
    {l \in L : l.username = username /\ l.passkey = passkey}

\* C21: validate_login(username, passkey) returns the people_id of a login
\* if and only if a login with exactly that username and that passkey exists
\* (the store raising nothing), and None otherwise; on success last_login of
\* that login becomes the current time and nothing else changes; a call that
\* returns None changes nothing.
C21_ValidateLogin ==
    [][last'.op = "validate_login" =>
        LET m == Matching(logins, last'.username, last'.passkey)
        IN  /\ last'.fail = "none" => (last'.result # SqlNull <=> m # {})
            /\ last'.result # SqlNull =>
                    /\ \E l \in m : last'.result = SqlText(l.people_id)
                    /\ logins' = (logins \ m)
                            \cup {[l EXCEPT !.last_login = SqlText(now)] :
                                        l \in m}
                    /\ people' = people /\ relationships' = relationships
            /\ last'.result = SqlNull =>
                    /\ logins' = logins
                    /\ people' = people /\ relationships' = relationships
      ]_vars

\* C21 witness: a login was validated and carries the time of that call as
\* its last_login, while a login of another username keeps an earlier one.
C21_Witness ==
    /\ last.op = "validate_login"
    /\ last.result # SqlNull
    /\ now = MaxTime
    /\ \E l \in logins :
            /\ l.username = last.username
            /\ l.last_login = SqlText(now - 1)
            /\ last.result = SqlText(l.people_id)
    /\ \E l \in logins :
            l.username # last.username /\ l.last_login # SqlText(now - 1)

\* first_name or last_name is missing from the data, null or empty
LacksName(data) ==
    \E k \in {"first_name", "last_name"} :
        Get(data, k) = SqlNull \/ Get(data, k) = SqlText("")

\* C22: add_user and the handler of POST /people fail and create no person
\* whenever first_name or last_name is missing or is the empty string.
C22_NamesRequired ==
    [][/\ (last'.op = "add_user" /\ LacksName(last'.data)) =>
            people' = people
       /\ (last'.op = "post_people" /\ LacksName(last'.data)) =>
            (last'.status # 201 /\ people' = people)]_vars

(***************************************************************************)
(* Reads and writes of people (SpecPeople): persons 1 and 2 exist, id 3    *)
(* does not; their fields are strings of characters.                       *)
(***************************************************************************)
\* valid_fields of update_user
ValidFieldsWithTags ==
    {"first_name", "last_name", "email", "phone_number", "location",
     "university", "uni_major", "interests", "high_school", "gender",
     "ethnicity", "job_title", "current_company", "profile_image_url",
     "linkedin_url", "birthday", "recent_tags"}

valid_fields ==
    {"first_name", "last_name", "email", "phone_number", "location",
     "university", "uni_major", "interests", "high_school", "gender",
     "ethnicity", "job_title", "current_company", "profile_image_url",
     "linkedin_url", "birthday"}

\* update_data of update_user: the items of user_data with a valid key
UpdateDataOf(user_data) ==
    [k \in DOMAIN user_data \cap valid_fields |-> user_data[k]]

\* update_user.  get_user_by_id answers None when its SELECT raises, and
\* update_user then returns False; the UPDATE raises when the store rejects
\* it (fail = "update") or when it sets first_name or last_name, which are
\* NOT NULL, to None; the exception is raised again after the rollback.
update_user(db, user_id, user_data, fail) ==
    LET update_data == UpdateDataOf(user_data)
    IN  IF fail = "select" \/ ~PersonExists(db, user_id)
        THEN [db |-> db, result |-> FALSE, raised |-> FALSE]
        ELSE IF DOMAIN update_data = {}
        THEN [db |-> db, result |-> TRUE, raised |-> FALSE]
        ELSE IF \/ fail = "update"
                \/ \E k \in {"first_name", "last_name"} \cap DOMAIN update_data :
                        update_data[k] = SqlNull
        THEN [db |-> db, result |-> FALSE, raised |-> TRUE]
        ELSE [db |-> [db EXCEPT !.people[user_id] =
                        [k \in DOMAIN @ |->
                            IF k \in DOMAIN update_data THEN update_data[k]
                            ELSE @[k]]],
              result |-> TRUE, raised |-> FALSE]

\* s LIKE pattern from position i of s and j of the pattern: % stands for
\* any run of characters, _ for any one character
RECURSIVE LikeFrom(_, _, _, _)
LikeFrom(s, i, pattern, j) ==
    IF j > Len(pattern) THEN i > Len(s)
    ELSE IF pattern[j] = "%"
    THEN \/ LikeFrom(s, i, pattern, j + 1)
         \/ i <= Len(s) /\ LikeFrom(s, i + 1, pattern, j)
    ELSE IF pattern[j] = "_"
    THEN i <= Len(s) /\ LikeFrom(s, i + 1, pattern, j + 1)
    ELSE i <= Len(s) /\ s[i] = pattern[j]
            /\ LikeFrom(s, i + 1, pattern, j + 1)

\* column ILIKE pattern; NULL ILIKE pattern is not true
ILike(v, pattern) ==
    v # SqlNull /\ LikeFrom(Lower(v[1]), 1, Lower(pattern), 1)

\* the columns that search_users looks at
SearchColumns ==
    {"first_name", "last_name", "location", "interests", "university",
     "high_school"}

\* the place of a character in the order of the store: the letters in
\* alphabetical order, what is not a letter before them
Rank(c) ==
    IF c \in Range(UpperCase \o LowerCase)
    THEN CHOOSE i \in 1..52 : (UpperCase \o LowerCase)[i] = c
    ELSE 0

\* a <= b for two strings
RECURSIVE StrLeq(_, _)
StrLeq(a, b) ==
    IF a = <<>> THEN TRUE
    ELSE IF b = <<>> THEN FALSE
    ELSE IF Rank(Head(a)) # Rank(Head(b)) THEN Rank(Head(a)) < Rank(Head(b))
    ELSE StrLeq(Tail(a), Tail(b))

\* ORDER BY first_name, last_name
OrderedBefore(P, p, q) ==
    IF P[p].first_name # P[q].first_name
    THEN StrLeq(P[p].first_name[1], P[q].first_name[1])
    ELSE StrLeq(P[p].last_name[1], P[q].last_name[1])

\* the ids of a set of rows in the order of ORDER BY
InOrder(P, ids) ==
    CHOOSE seq \in [1..Cardinality(ids) -> ids] :
        /\ \A i, j \in DOMAIN seq : i # j => seq[i] # seq[j]
        /\ \A i, j \in DOMAIN seq : i < j => OrderedBefore(P, seq[i], seq[j])

\* search_users: the rows of which a searched column is ILIKE %term%, in
\* order; the empty list when the SELECT raises
search_users(db, search_term, fail) ==
    LET search_pattern == <<"%">> \o search_term \o <<"%">>
        found == {p \in DOMAIN db.people :
                    \E c \in SearchColumns :
                        ILike(db.people[p][c], search_pattern)}
    IN  IF fail = "select" THEN <<>> ELSE InOrder(db.people, found)

\* rows of people
PersonRow(first_name, last_name, location, university) ==
    [c \in PeopleColumns |->
        IF c = "first_name" THEN SqlText(first_name)
        ELSE IF c = "last_name" THEN SqlText(last_name)
        ELSE IF c = "location" THEN location
        ELSE IF c = "university" THEN university
        ELSE IF c = "recent_tags" THEN SqlText(DEFAULT_TAGS)
        ELSE SqlNull]

\* the user_data of a call of update_user
UserUpdates ==
    {<<>>,
     [location |-> SqlText(<<"R", "o", "m", "e">>)],
     [id |-> 3, recent_tags |-> SqlText(<<"x">>)],
     [first_name |-> SqlText(<<"C", "y">>), id |-> 3, recent_tags |-> SqlText(<<"x">>)],
     [last_name |-> SqlNull, location |-> SqlText(<<"R", "o", "m", "e">>)],
     [birthday |-> SqlText(<<"1", "9", "9", "0">>), interests |-> SqlText(<<"C", "h", "e", "s", "s">>)]}

\* the terms of a call of search_users
SearchTerms ==
    {<<"l", "e", "e">>, <<"A", "N">>, <<"o">>, <<"z", "z">>, <<"c", "m">>, <<"%">>, <<"A", "_", "n">>}

InitPeople ==
    /\ people = [p \in {1, 2} |->
                    IF p = 1
                    THEN PersonRow(<<"A", "n", "n">>, <<"L", "e", "e">>, SqlText(<<"O", "s", "l", "o">>), SqlNull)
                    ELSE PersonRow(<<"A", "l">>, <<"N", "g">>, SqlNull, SqlText(<<"C", "M", "U">>))]
    /\ logins = {}
    /\ relationships = {}
    /\ people_id_seq = 2
    /\ now = 0
    /\ last = [op |-> "none"]
    /\ w = NoWorkers

UpdateUser(user_id, user_data, fail) ==
    /\ LET r == update_user(DB, user_id, user_data, fail)
       IN  /\ Commit(r.db)
           /\ last' = [op |-> "update_user", user_id |-> user_id,
                       data |-> user_data, fail |-> fail,
                       result |-> r.result, raised |-> r.raised]
    /\ UNCHANGED <<people_id_seq, now, w>>

SearchUsers(search_term, fail) ==
    /\ last' = [op |-> "search_users", term |-> search_term, fail |-> fail,
                result |-> search_users(DB, search_term, fail)]
    /\ UNCHANGED <<people, logins, relationships, people_id_seq, now, w>>

NextPeople ==
    \/ \E i \in Ids, d \in UserUpdates, f \in {"none", "select", "update"} :
          UpdateUser(i, d, f)
    \/ \E t \in SearchTerms, f \in {"none", "select"} : SearchUsers(t, f)

SpecPeople == InitPeople /\ [][NextPeople]_vars

\* keys of the data of an update that are not fields a caller may set
IgnoredKeys == {"id", "recent_tags"}

\* C23: update_user changes only fields of valid_fields: keys outside it
\* (id, recent_tags) are ignored without error and leave the person as it
\* was; an update with only such keys returns True and changes nothing; an
\* update of an id that is not there returns False and changes nothing; no
\* other person, login or relationship changes.
C23_UpdateUserAllowList ==
    [][last'.op = "update_user" =>
        LET id == last'.user_id
            data == last'.data
        IN  /\ logins' = logins /\ relationships' = relationships
            /\ DOMAIN people' = DOMAIN people
            /\ \A p \in DOMAIN people : p # id => people'[p] = people[p]
            /\ id \notin DOMAIN people =>
                    ~last'.result /\ ~last'.raised /\ people' = people
            /\ id \in DOMAIN people =>
                    /\ \A k \in PeopleColumns \ (DOMAIN data \ IgnoredKeys) :
                            people'[id][k] = people[id][k]
                    /\ (last'.result /\ ~last'.raised) =>
                            \A k \in (DOMAIN data \ IgnoredKeys) :
                                people'[id][k] = data[k]
                    /\ (DOMAIN data \subseteq IgnoredKeys
                            /\ last'.fail = "none") =>
                            last'.result /\ ~last'.raised /\ people' = people
      ]_vars

\* C23 witness: an update that named first_name, id and recent_tags returned
\* True; the first name is the new one and recent_tags is what it was.
C23_Witness ==
    /\ last.op = "update_user"
    /\ last.result
    /\ {"id", "recent_tags", "first_name"} \subseteq DOMAIN last.data
    /\ people[last.user_id].first_name = last.data.first_name
    /\ people[last.user_id].recent_tags = SqlText(DEFAULT_TAGS)

\* a searched column of the row contains the term, whatever the case
ContainsTerm(row, term) ==
    \E c \in SearchColumns :
        row[c] # SqlNull /\ Contains(Lower(row[c][1]), Lower(term))

\* C24: search_users(term) with a term that is not empty returns exactly
\* the persons of which first_name, last_name, location, university,
\* high_school or interests contains the term as a case-insensitive
\* substring, ordered by first_name, then last_name.
C24_SearchIsSubstringMatch ==
    (last.op = "search_users" /\ last.fail = "none" /\ last.term # <<>>) =>
        /\ Range(last.result)
                = {p \in DOMAIN people : ContainsTerm(people[p], last.term)}
        /\ \A i, j \in DOMAIN last.result :
                i < j => OrderedBefore(people, last.result[i], last.result[j])

(***************************************************************************)
(* More properties of remove_connection (Spec, SpecConc).                  *)
(***************************************************************************)
\* C25: remove_connection(a, b) called when there is no row a->b changes
\* nothing: a person without a login and without a row that names it as
\* contact is not deleted by such a call.
C25_RemoveWithoutEdgeChangesNothing ==
    [][(/\ last'.op = "remove_connection"
        /\ EdgeAt(DB, last'.user_id, last'.contact_id) = {})
        => /\ people' = people
           /\ logins' = logins
           /\ relationships' = relationships]_vars

\* C26: when remove_connection(a, b) of an existing row a->b runs beside
\* add_connection(c, b), c # a, and add_connection has returned True, then after both have returned the
\* row c->b and the person b are still there.
C26_AddSurvivesConcurrentRemove ==
    \A i \in Workers, j \in Workers :
        ( /\ i # j
          /\ Done(i) /\ Done(j)
          /\ w.proc[i].op = "remove_connection"
          /\ w.proc[j].op = "add_connection"
          /\ w.proc[i].contact_id = w.proc[j].contact_id
          /\ w.proc[i].user_id # w.proc[j].user_id
          /\ EdgeAt(w.start, w.proc[i].user_id, w.proc[i].contact_id) # {}
          /\ w.proc[j].result )
        =>
        /\ w.proc[j].contact_id \in DOMAIN people
        /\ EdgeAt(DB, w.proc[j].user_id, w.proc[j].contact_id) # {}

\* C27: after a remove_connection(a, b) of an existing row that returned
\* True, in a graph without a row from a person to itself, every person
\* without a login that some row named as contact before the call is still
\* named by a row or has been deleted; the cascade of the DELETE of b
\* leaves no contact of b behind without a row that names it.
C27_CleanupIsComplete ==
    [][(/\ last'.op = "remove_connection" /\ last'.result
        /\ EdgeAt(DB, last'.user_id, last'.contact_id) # {}
        /\ \A r \in relationships : r.user_id # r.contact_id)
        => \A d \in DOMAIN people :
            ( /\ \A l \in logins : l.people_id # d
              /\ \E r \in relationships : r.contact_id = d )
            => \/ d \notin DOMAIN people'
               \/ \E r \in relationships' : r.contact_id = d]_vars

Without(R, b) == {r \in R : r.user_id # b /\ r.contact_id # b}

\* C29: remove_connection(a, b), whatever it returns, deletes no person
\* other than b and no row other than a->b that does not have b as owner or
\* contact; the persons other than b with their recent_tags, their logins
\* and the rows among them are what they were, and nothing is added.
C29_BlastRadius ==
    [][last'.op = "remove_connection" =>
        LET a == last'.user_id
            b == last'.contact_id
        IN  /\ DOMAIN people' \subseteq DOMAIN people
            /\ DOMAIN people \ DOMAIN people' \subseteq {b}
            /\ \A p \in DOMAIN people \ {b} : people'[p] = people[p]
            /\ {l \in logins' : l.people_id # b}
                    = {l \in logins : l.people_id # b}
            /\ Without(relationships', b) = Without(relationships, b)
            /\ relationships' \subseteq relationships
      ]_vars

\* C29 witness: a removal deleted the contact and, by the cascade, a row
\* the contact owned, while another person keeps its login.
C29_Witness ==
    /\ last.op = "remove_connection"
    /\ last.result
    /\ last.rowcount = 1
    /\ last.gc >= 2
    /\ last.user_id # last.contact_id
    /\ last.contact_id \notin DOMAIN people
    /\ \E l \in logins : l.people_id # last.user_id

\* C30: registration is atomic: when add_user, called directly or by the
\* handler of POST /people with a username and a password, creates a person,
\* that person has a login with the username afterwards; no person is left
\* behind without one when the login cannot be created.
C30_RegistrationIsAtomic ==
    [][(/\ last'.op \in {"add_user", "post_people"}
        /\ {"username", "password"} \subseteq DOMAIN last'.data)
        => \A p \in DOMAIN people' \ DOMAIN people :
                \E l \in logins' :
                    /\ l.people_id = p
                    /\ SqlText(l.username) = last'.data.username]_vars

====
